---- MODULE Spec2Model ----
(***************************************************************************)
(* The London Fire Brigade dashboard (lfb_dashboard.py) as a state machine. *)
(* The script is executed top to bottom once per render cycle of a browser  *)
(* session; the only state shared between cycles and sessions is the        *)
(* st.cache_data entry of load_data.                                        *)
(*                                                                          *)
(* Numbers: a column of seconds holds naturals, NaN for a missing value;    *)
(* every value the script derives by division is an exact fraction <<n, d>> *)
(* (d > 0), with <<0, 0>> for NaN and <<1, 0>> for +inf.                     *)
(* Library semantics are those of pandas 2.x on plain (object / numeric)    *)
(* columns: groupby drops NaN keys, sorts its keys, and keeps unobserved    *)
(* categories of a categorical key (observed=False).                       *)
(***************************************************************************)
EXTENDS Integers, Sequences, FiniteSets, TLC

\* ------------------------------------------------------------ bounds
\* rows appended to a baseline file
MaxExtra == 2
\* script runs (render cycles) of one process
MaxRuns == 3
\* month names offered besides "All" (the script offers all twelve)
MaxMonth == 2

\* ------------------------------------------------------------ values
NaN == -1
NA == "<NA>"
All == "All"
AllYears == 0
None == <<>>
Some(v) == <<v>>

Range(s) == {s[i] : i \in DOMAIN s}

RECURSIVE GCD(_, _)
GCD(a, b) == IF b = 0 THEN a ELSE GCD(b, a % b)

NaNRat == <<0, 0>>
Inf == <<1, 0>>
IsNaN(q) == q = NaNRat
Norm(q) ==
    IF q[2] = 0 THEN (IF q[1] = 0 THEN NaNRat ELSE Inf)
    ELSE LET g == GCD(q[1], q[2]) IN <<q[1] \div g, q[2] \div g>>
Rat(n) == <<n, 1>>
RAdd(a, b) ==
    IF IsNaN(a) \/ IsNaN(b) THEN NaNRat
    ELSE IF a = Inf \/ b = Inf THEN Inf
    ELSE Norm(<<a[1] * b[2] + b[1] * a[2], a[2] * b[2]>>)
RMul(a, k) == IF a[2] = 0 THEN a ELSE Norm(<<a[1] * k, a[2]>>)
\* a / b on non-negative values: 0/0 is NaN, x/0 is inf
RDiv(a, b) ==
    IF IsNaN(a) \/ IsNaN(b) THEN NaNRat
    ELSE IF a = Inf THEN (IF b = Inf THEN NaNRat ELSE Inf)
    ELSE IF b = Inf THEN Rat(0)
    ELSE Norm(<<a[1] * b[2], a[2] * b[1]>>)
\* comparisons with NaN are False
RLt(a, b) == ~IsNaN(a) /\ ~IsNaN(b) /\ a[1] * b[2] < b[1] * a[2]
RLe(a, b) == ~IsNaN(a) /\ ~IsNaN(b) /\ a[1] * b[2] <= b[1] * a[2]
\* a column of seconds divided by 60
Div60(x) == IF x = NaN THEN NaNRat ELSE Norm(<<x, 60>>)

RECURSIVE Pow10(_)
Pow10(n) == IF n = 0 THEN 1 ELSE 10 * Pow10(n - 1)

\* a non-negative finite value times 10^places, rounded to the nearest integer, a
\* tie to the even one (the rounding of round() and of the "f" format on a value
\* that the binary float holds exactly)
RoundScaled(q, places) ==
    LET n  == q[1] * Pow10(places)
        lo == n \div q[2]
        r2 == 2 * (n % q[2])
    IN  IF r2 > q[2] \/ (r2 = q[2] /\ lo % 2 = 1) THEN lo + 1 ELSE lo

\* Series.round(places)
round(q, places) ==
    IF q[2] = 0 THEN q ELSE Norm(<<RoundScaled(q, places), Pow10(places)>>)

RECURSIVE ZeroPad(_, _)
ZeroPad(str, width) == IF Len(str) >= width THEN str ELSE ZeroPad("0" \o str, width)

\* f"{q:.<places>f}"
format_f(q, places) ==
    IF IsNaN(q) THEN "nan"
    ELSE IF q = Inf THEN "inf"
    ELSE LET r == RoundScaled(q, places)
         IN  ToString(r \div Pow10(places)) \o "."
                 \o ZeroPad(ToString(r % Pow10(places)), places)

\* ------------------------------------------------------------ dates
\* a CallDate of the file is the calendar date [y, m, d]; pd.to_datetime
\* turns it into a timestamp, here the day number since 1970-01-01
DaysFromCivil(y, m, d) ==
    LET yy  == IF m <= 2 THEN y - 1 ELSE y
        era == yy \div 400
        yoe == yy - era * 400
        mp  == IF m > 2 THEN m - 3 ELSE m + 9
        doy == (153 * mp + 2) \div 5 + d - 1
        doe == yoe * 365 + yoe \div 4 - yoe \div 100 + doy
    IN  era * 146097 + doe - 719468

CivilFromDays(z0) ==
    LET z   == z0 + 719468
        era == z \div 146097
        doe == z - era * 146097
        yoe == (doe - doe \div 1460 + doe \div 36524 - doe \div 146096) \div 365
        doy == doe - (365 * yoe + yoe \div 4 - yoe \div 100)
        mp  == (5 * doy + 2) \div 153
        d   == doy - (153 * mp + 2) \div 5 + 1
        m   == IF mp < 10 THEN mp + 3 ELSE mp - 9
        y   == yoe + era * 400 + (IF m <= 2 THEN 1 ELSE 0)
    IN  [y |-> y, m |-> m, d |-> d]

to_datetime(v) ==
    IF "ord" \in DOMAIN v THEN v ELSE [ord |-> DaysFromCivil(v.y, v.m, v.d)]

month_names ==
    << "January", "February", "March", "April", "May", "June",
       "July", "August", "September", "October", "November", "December" >>

weekday_order ==
    << "Monday", "Tuesday", "Wednesday", "Thursday", "Friday", "Saturday", "Sunday" >>

dt_year(ts) == CivilFromDays(ts.ord).y
dt_month(ts) == CivilFromDays(ts.ord).m
dt_month_name(ts) == month_names[CivilFromDays(ts.ord).m]
\* 1970-01-01 was a Thursday
dt_day_name(ts) == weekday_order[((ts.ord + 3) % 7) + 1]
\* TimeOfCall is the time of day in seconds
dt_hour(t) == t \div 3600

\* ------------------------------------------------------------ the data file
\* one record of lfb_streamlit.parquet (the columns the script reads)
Row(id, date, tod, grp, fp, turnout, travel, delay) ==
    [ IncidentNumber |-> id, CallDate |-> date, TimeOfCall |-> tod,
      IncidentGroup |-> grp, FirstPumpArriving_AttendanceTime |-> fp,
      TurnoutTimeSeconds |-> turnout, TravelTimeSeconds |-> travel,
      DelayCode_Description |-> delay ]

Mon4Jan21 == [y |-> 2021, m |-> 1, d |-> 4]
Sat6Feb21 == [y |-> 2021, m |-> 2, d |-> 6]
Sun2Jan22 == [y |-> 2022, m |-> 1, d |-> 2]

\* all three incident groups on one day, nobody later than 10 minutes
BaseCalm ==
    << Row("F1", Mon4Jan21, 0,     "Fire",            300, 60, 240, NA),
       Row("F2", Mon4Jan21, 3600,  "False Alarm",     360, 90, 270, NA),
       Row("F3", Mon4Jan21, 86399, "Special Service", 420, 120, 300, NA) >>

\* all three incident groups, with extreme delays that carry a delay code
BaseDelayed ==
    << Row("G1", Mon4Jan21, 0,     "Fire",            660, 60, 600, "Traffic"),
       Row("G2", Mon4Jan21, 3600,  "False Alarm",     720, 90, 630, "Traffic"),
       Row("G3", Mon4Jan21, 86399, "Special Service", 1200, 120, 1080, "Weather") >>

\* the three-record file of the monthly-series example
ExampleMonthly ==
    << Row("A", Mon4Jan21, 0, "Fire",        200, 60, 140, NA),
       Row("A", Mon4Jan21, 0, "Fire",        200, 60, 140, NA),
       Row("B", Mon4Jan21, 0, "False Alarm", 400, 90, 310, NA) >>

\* the rows a file may hold besides a baseline
ExtraRows ==
    { Row("A", Mon4Jan21, 0,     "Fire",            200, 60,  140, NA),
      Row("A", Sun2Jan22, 86399, "False Alarm",     1260, 100, 1160, NA),
      Row("D", Sat6Feb21, 3600,  "Fire",            NaN, NaN, NaN, NA),
      Row("E", Sat6Feb21, 3600,  "Special Service", 660, NaN, 600, "Traffic") }

RECURSIVE SeqsUpTo(_, _)
SeqsUpTo(S, n) ==
    IF n = 0 THEN {<<>>}
    ELSE LET shorter == SeqsUpTo(S, n - 1)
         IN  shorter \cup {Append(t, x) : t \in shorter, x \in S}

\* all three incident groups: a zero-time Fire record, a Special Service record without times
BaseGaps ==
    << Row("H1", Mon4Jan21, 0,     "Fire",            0,   0,   0,   NA),
       Row("H2", Mon4Jan21, 3600,  "False Alarm",     400, 90,  310, NA),
       Row("H3", Mon4Jan21, 86399, "Special Service", NaN, NaN, NaN, NA) >>

Baselines == {<<>>, BaseCalm, BaseDelayed, BaseGaps}
Files == {b \o e : b \in Baselines, e \in SeqsUpTo(ExtraRows, MaxExtra)} \cup {ExampleMonthly}

\* pd.read_parquet: the records of the file under a RangeIndex
read_parquet(f) == [i \in 1..Len(f) |-> f[i] @@ [index |-> i - 1]]

\* ------------------------------------------------------------ state
VARIABLES
    file,            \* the records of lfb_streamlit.parquet
    cache,           \* the st.cache_data entry of load_data: None or Some(table)
    fileReads,       \* executions of pd.read_parquet
    derivations,     \* executions of the feature engineering block
    runs,            \* script runs started in this process
    active,          \* the browser sessions connected to the process
    pc,              \* per session: the section its script run is at
    selected_year, selected_month,
    df, filtered_df,
    warning, fault,
    kpi, monthly_incident_counts_long, daily_hourly_incidents,
    band_pivot, band_distribution, decomposition, delay_counts_extreme, tabs,
    stopped_before   \* per session: an earlier script run of it ended in st.stop()

shared == <<file, cache, fileReads, derivations, runs, active>>
selection == <<selected_year, selected_month>>
frames == <<df, filtered_df>>
outputs == <<warning, fault, kpi, monthly_incident_counts_long, daily_hourly_incidents,
             band_pivot, band_distribution, decomposition, delay_counts_extreme, tabs>>
vars == <<shared, pc, selection, frames, outputs, stopped_before>>

Sessions == {"s1", "s2"}

\* ------------------------------------------------------------ load and derive
\* a DataFrame variable refers to an object: its own ("own"), or the one the cache holds
NoFrame == [ref |-> "none", val |-> <<>>]
OwnFrame(t) == [ref |-> "own", val |-> t]
Deref(h, c) == IF h.ref = "cache" THEN c[1] ELSE h.val

\* @st.cache_data: the function body runs on a miss only
CacheMissAlways(c) == TRUE
CacheMiss(c) == c = None

\* @st.cache_data hands every caller its own copy of the stored value
load_data_shared(c) == [ref |-> "cache", val |-> <<>>]
load_data(c) == OwnFrame(c[1])

\* <= 360 on a column of seconds: a comparison with a missing value is False
Below6min(x) == x # NaN /\ x < 360
Within6min(x) == x # NaN /\ x <= 360

\* lines 23-36 on one record
FeatureRow(r) ==
    LET CallDate == to_datetime(r.CallDate)
    IN  [ CallDate    |-> CallDate,
          HourOfCall  |-> dt_hour(r.TimeOfCall),
          CallWeekday |-> dt_day_name(CallDate),
          Year        |-> dt_year(CallDate),
          Month       |-> dt_month(CallDate),
          MonthName   |-> dt_month_name(CallDate),
          CallMonth   |-> dt_month(CallDate),
          FirstPump_Within_6min |-> Within6min(r.FirstPumpArriving_AttendanceTime) ] @@ r

FeatureEngineering(t) == [i \in 1..Len(t) |-> FeatureRow(t[i])]

\* ------------------------------------------------------------ filters
available_years(t) == {AllYears} \cup {t[i].Year : i \in 1..Len(t)}
available_months == <<All>> \o month_names
MonthsOffered == {available_months[i] : i \in 1..(1 + MaxMonth)}

ApplyFiltersYearOnly(t, year, month) ==
    IF year = AllYears THEN t
    ELSE SelectSeq(t, LAMBDA r : r.Year = year)

ApplyFilters(t, year, month) ==
    IF year = AllYears /\ month = All THEN t
    ELSE IF year = AllYears THEN SelectSeq(t, LAMBDA r : r.MonthName = month)
    ELSE IF month = All THEN SelectSeq(t, LAMBDA r : r.Year = year)
    ELSE SelectSeq(t, LAMBDA r : r.Year = year /\ r.MonthName = month)

NoDataWarning == "No data available for selected filters."
NoExtremeWarning == "No extreme delays found for selected filters."

\* filtered_df.empty
IsEmptyNever(t) == FALSE
IsEmpty(t) == Len(t) = 0

\* ------------------------------------------------------------ series helpers
Col(t, c) == [i \in 1..Len(t) |-> t[i][c]]
dropna(xs) == SelectSeq(xs, LAMBDA x : x # NaN)

RECURSIVE Sum(_)
Sum(xs) == IF xs = <<>> THEN 0 ELSE Head(xs) + Sum(Tail(xs))

RECURSIVE Insert(_, _)
Insert(x, sorted) ==
    IF sorted = <<>> THEN <<x>>
    ELSE IF x < Head(sorted) THEN <<x>> \o sorted
    ELSE <<Head(sorted)>> \o Insert(x, Tail(sorted))

RECURSIVE Sorted(_)
Sorted(xs) == IF xs = <<>> THEN <<>> ELSE Insert(Head(xs), Sorted(Tail(xs)))

\* Series.mean(), Series.median(), Series.quantile(q/10): missing values are skipped
mean(xs) ==
    LET v == dropna(xs) IN IF v = <<>> THEN NaNRat ELSE Norm(<<Sum(v), Len(v)>>)

median(xs) ==
    LET v == Sorted(dropna(xs))
        n == Len(v)
    IN  IF n = 0 THEN NaNRat
        ELSE IF n % 2 = 1 THEN Rat(v[(n + 1) \div 2])
        ELSE Norm(<<v[n \div 2] + v[n \div 2 + 1], 2>>)

quantile(xs, tenths) ==
    LET v  == Sorted(dropna(xs))
        n  == Len(v)
        h  == tenths * (n - 1)
        lo == h \div 10
        fr == h % 10
    IN  IF n = 0 THEN NaNRat
        ELSE IF fr = 0 THEN Rat(v[lo + 1])
        ELSE Norm(<<10 * v[lo + 1] + fr * (v[lo + 2] - v[lo + 1]), 10>>)

\* (boolean Series).mean() * 100
share(hits, t) ==
    IF Len(t) = 0 THEN NaNRat
    ELSE Norm(<<100 * Len(hits), Len(t)>>)

\* Series.nunique(): the distinct values, in order of first appearance
RECURSIVE unique(_)
unique(xs) ==
    IF xs = <<>> THEN <<>>
    ELSE LET init == unique(SubSeq(xs, 1, Len(xs) - 1))
             x    == xs[Len(xs)]
         IN  IF x \in Range(init) THEN init ELSE Append(init, x)

size(xs) == Len(xs)
nunique(xs) == Len(unique(xs))

\* groupby sorts its keys: the incident groups in lexical order
sorted_groups == << "False Alarm", "Fire", "Special Service" >>
groups_of(t) == SelectSeq(sorted_groups, LAMBDA g : \E i \in 1..Len(t) : t[i].IncidentGroup = g)

\* ------------------------------------------------------------ KPI Calculations
KPICalculations(t) ==
    LET fp == Col(t, "FirstPumpArriving_AttendanceTime")
    IN  [ total_incidents      |-> Len(t),
          median_response      |-> RDiv(median(fp), Rat(60)),
          response_within_6min |->
              share(SelectSeq(t, LAMBDA r : Within6min(r.FirstPumpArriving_AttendanceTime)), t),
          false_alarm_rate     |->
              share(SelectSeq(t, LAMBDA r : r.IncidentGroup = "False Alarm"), t),
          fire_rate            |->
              share(SelectSeq(t, LAMBDA r : r.IncidentGroup = "Fire"), t),
          special_service_rate |->
              share(SelectSeq(t, LAMBDA r : r.IncidentGroup = "Special Service"), t),
          p90_response         |-> RDiv(quantile(fp, 9), Rat(60)),
          avg_response         |-> RDiv(mean(fp), Rat(60)) ]

\* lines 116-134: the metrics as displayed (the thousands separator of col1 does not
\* show below 1,000 records)
DisplayKPIs(k) ==
    [ col1 |-> ToString(k.total_incidents),
      col2 |-> format_f(k.median_response, 2),
      col3 |-> format_f(k.response_within_6min, 1),
      col4 |-> format_f(k.false_alarm_rate, 1),
      col5 |-> format_f(k.fire_rate, 1),
      col6 |-> format_f(k.special_service_rate, 1),
      col7 |-> format_f(k.p90_response, 2),
      col8 |-> format_f(k.avg_response, 2) ]

\* lines 99-134: the KPI values and the metrics that display them
KPIs(t) == KPICalculations(t) @@ DisplayKPIs(KPICalculations(t))

\* ------------------------------------------------------------ monthly trends
month_group_keys ==
    [k \in 1..36 |-> <<((k - 1) \div 3) + 1, sorted_groups[((k - 1) % 3) + 1]>>]

IncidentCountBySize(xs) == size(xs)
IncidentCount(xs) == nunique(xs)

\* groupby(["CallMonth", "IncidentGroup"])["IncidentNumber"].nunique().reset_index()
monthly_incidents_by_type(t) ==
    LET rows(k) == SelectSeq(t, LAMBDA r : r.CallMonth = k[1] /\ r.IncidentGroup = k[2])
        keys    == SelectSeq(month_group_keys, LAMBDA k : rows(k) # <<>>)
    IN  [i \in 1..Len(keys) |->
            [ CallMonth     |-> keys[i][1],
              IncidentGroup |-> keys[i][2],
              IncidentCount |-> IncidentCount(Col(rows(keys[i]), "IncidentNumber")) ]]

\* groupby("CallMonth")["IncidentNumber"].nunique(), labelled "All Incidents"
monthly_incidents_total(t) ==
    LET rows(m) == SelectSeq(t, LAMBDA r : r.CallMonth = m)
        keys    == SelectSeq([m \in 1..12 |-> m], LAMBDA m : rows(m) # <<>>)
    IN  [i \in 1..Len(keys) |->
            [ CallMonth     |-> keys[i],
              IncidentGroup |-> "All Incidents",
              IncidentCount |-> IncidentCount(Col(rows(keys[i]), "IncidentNumber")) ]]

MonthlyIncidentCountsLong(t) == monthly_incidents_by_type(t) \o monthly_incidents_total(t)

\* the legend of the trend chart: one entry per level of hue_order[1:], then the
\* separately plotted total; the reordering looks every label of desired_order up
hue_order == << "All Incidents", "False Alarm", "Special Service", "Fire" >>
desired_order == << "All Incidents", "False Alarm", "Special Service", "Fire" >>
legend_labels == Tail(hue_order) \o << "All Incidents" >>
LegendLookupFails == \E i \in 1..Len(desired_order) : desired_order[i] \notin Range(legend_labels)

\* ------------------------------------------------------------ hour x weekday heatmap
\* pivot_table(index="HourOfCall", columns="CallWeekday", values="IncidentNumber",
\* aggfunc="nunique"): a cell of an observed hour and weekday without records is NaN
pivot_table(t) ==
    LET hours == {t[i].HourOfCall : i \in 1..Len(t)}
        days  == {t[i].CallWeekday : i \in 1..Len(t)}
        cellrows(h, d) == SelectSeq(t, LAMBDA r : r.HourOfCall = h /\ r.CallWeekday = d)
    IN  [ index   |-> hours,
          columns |-> days,
          cell    |-> [hd \in hours \X days |->
                         IF cellrows(hd[1], hd[2]) = <<>> THEN NaN
                         ELSE nunique(Col(cellrows(hd[1], hd[2]), "IncidentNumber"))] ]

\* .reindex(index=range(24)).reindex(columns=weekday_order): the frame takes the new
\* labels; the cells of the labels it had are kept, every other cell is the fill
\* value, which is NaN as neither call passes fill_value
reindex(p, index, columns) ==
    [ index   |-> index,
      columns |-> columns,
      cell    |-> [hd \in {x \in DOMAIN p.cell : x[1] \in Range(index) /\ x[2] \in Range(columns)}
                     |-> p.cell[hd]],
      fill    |-> NaN ]

\* the value of the frame at row h, column d
at(m, h, d) == IF <<h, d>> \in DOMAIN m.cell THEN m.cell[<<h, d>>] ELSE m.fill

hours_of_day == [i \in 1..24 |-> i - 1]
DailyHourlyIncidents(t) == reindex(pivot_table(t), hours_of_day, weekday_order)

\* ------------------------------------------------------------ response time bands
bins == << Rat(0), Rat(6), Rat(8), Rat(10), Inf >>
labels == << "<= 6 min", "6-8 min", "8-10 min", "> 10 min" >>

\* pd.cut(x, bins, labels, right=True): the band (b[i], b[i+1]] holding x, else missing
cut(x, b, l) ==
    IF \E i \in 1..Len(l) : RLt(b[i], x) /\ RLe(x, b[i + 1])
    THEN l[CHOOSE i \in 1..Len(l) : RLt(b[i], x) /\ RLe(x, b[i + 1])]
    ELSE NA

\* lines 580-598: the two columns written to filtered_df
WithResponseMinutes(t) ==
    [i \in 1..Len(t) |->
        [ResponseMinutes |-> Div60(t[i].FirstPumpArriving_AttendanceTime)] @@ t[i]]
WithResponseBand(t) ==
    [i \in 1..Len(t) |->
        [ResponseBand |-> cut(t[i].ResponseMinutes, bins, labels)] @@ t[i]]

\* groupby(["IncidentGroup", "ResponseBand"]).size(): every band of every group present
band_count(t, g, l) ==
    Len(SelectSeq(t, LAMBDA r : r.IncidentGroup = g /\ r.ResponseBand = l))
table_total(t, g) ==
    Len(SelectSeq(t, LAMBDA r : r.ResponseBand # NA))
group_total(t, g) ==
    Len(SelectSeq(t, LAMBDA r : r.IncidentGroup = g /\ r.ResponseBand # NA))

\* transform(lambda x: 100 * x / x.sum()) within the IncidentGroup
Percent(t, g, l) == RDiv(Rat(100 * band_count(t, g, l)), Rat(group_total(t, g)))

fillna(q, v) == IF IsNaN(q) THEN v ELSE q

\* band_counts.pivot(...).fillna(0)[labels]
BandPivot(t) ==
    [ index   |-> groups_of(t),
      columns |-> labels,
      cell    |-> [g \in Range(groups_of(t)) |-> [l \in Range(labels) |->
                     fillna(Percent(t, g, l), Rat(0))]] ]

\* lines 723-724: the bins and labels of the second banding
distribution_bins == << Rat(0), Rat(4), Rat(6), Rat(8), Rat(20) >>
distribution_labels == << "<4 min", "4-6 min", "6-8 min", ">8 min" >>

\* line 682
response_minutes(t) == [i \in 1..Len(t) |-> Div60(t[i].FirstPumpArriving_AttendanceTime)]

\* value_counts(normalize=True).sort_index() of a categorical Series: every category
\* in category order, its count over the number of values that are not missing
value_counts(bands, l) ==
    LET counted == SelectSeq(bands, LAMBDA b : b # NA)
    IN  [i \in 1..Len(l) |->
            [ band  |-> l[i],
              value |-> RDiv(Rat(Len(SelectSeq(bands, LAMBDA b : b = l[i]))),
                             Rat(Len(counted))) ]]

\* lines 726-732: pd.cut(...).value_counts(normalize=True).sort_index().mul(100).round(1)
BandDistribution(t) ==
    LET minutes == response_minutes(t)
        bands   == [i \in 1..Len(t) |-> cut(minutes[i], distribution_bins, distribution_labels)]
        shares  == value_counts(bands, distribution_labels)
    IN  [i \in 1..Len(shares) |->
            [ band  |-> shares[i].band,
              value |-> round(RMul(shares[i].value, 100), 1) ]]

\* ------------------------------------------------------------ turnout vs travel
order == << "Fire", "Special Service", "False Alarm" >>

TravelShareOfTurnout(travel, turnout, total) == RMul(RDiv(travel, turnout), 100)
TravelShare(travel, turnout, total) == RMul(RDiv(travel, total), 100)

\* lines 807-830 for one incident group
DecompositionRow(t, g) ==
    LET rows    == SelectSeq(t, LAMBDA r : r.IncidentGroup = g)
        turnout == RDiv(mean(Col(rows, "TurnoutTimeSeconds")), Rat(60))
        travel  == RDiv(mean(Col(rows, "TravelTimeSeconds")), Rat(60))
        total   == RAdd(turnout, travel)
    IN  [ IncidentGroup      |-> g,
          TurnoutTimeSeconds |-> turnout,
          TravelTimeSeconds  |-> travel,
          TotalMinutes       |-> total,
          TurnoutPercent     |-> RMul(RDiv(turnout, total), 100),
          TravelPercent      |-> TravelShare(travel, turnout, total) ]

\* .set_index("IncidentGroup").loc[order]: a label without a row raises KeyError
loc_raises(t) == \E i \in 1..Len(order) : order[i] \notin Range(groups_of(t))
Decomposition(t) == [i \in 1..Len(order) |-> DecompositionRow(t, order[i])]

\* ------------------------------------------------------------ extreme delays
sorted_delay_codes == << "Traffic", "Weather" >>

extreme_df(t) == SelectSeq(t, LAMBDA r : RLt(Rat(10), r.ResponseMinutes))

\* groupby("DelayCode_Description").size().reset_index(name="IncidentCount")
delay_counts(t) ==
    LET rows(c) == SelectSeq(t, LAMBDA r : r.DelayCode_Description = c)
        keys    == SelectSeq(sorted_delay_codes, LAMBDA c : rows(c) # <<>>)
    IN  [i \in 1..Len(keys) |->
            [DelayCode_Description |-> keys[i], IncidentCount |-> Len(rows(keys[i]))]]

\* sort_values("IncidentCount", ascending=False)
RECURSIVE InsertByCount(_, _)
InsertByCount(x, sorted) ==
    IF sorted = <<>> THEN <<x>>
    ELSE IF x.IncidentCount > Head(sorted).IncidentCount THEN <<x>> \o sorted
    ELSE <<Head(sorted)>> \o InsertByCount(x, Tail(sorted))

RECURSIVE sort_values(_)
sort_values(xs) ==
    IF xs = <<>> THEN <<>>
    ELSE InsertByCount(xs[Len(xs)], sort_values(SubSeq(xs, 1, Len(xs) - 1)))

RECURSIVE RSum(_)
RSum(qs) == IF qs = <<>> THEN Rat(0) ELSE RAdd(Head(qs), RSum(Tail(qs)))

\* lines 886-906 after the emptiness check: Percent and CumulativePercent
WithPercent(dc) ==
    LET total_extreme == Sum(Col(dc, "IncidentCount"))
        pct(i) == RMul(RDiv(Rat(dc[i].IncidentCount), Rat(total_extreme)), 100)
    IN  [i \in 1..Len(dc) |->
            [ Percent           |-> pct(i),
              CumulativePercent |-> RSum([j \in 1..i |-> pct(j)]) ] @@ dc[i]]

DelayCountsExtreme(t) == sort_values(delay_counts(extreme_df(t)))

\* ------------------------------------------------------------ the script run
\* a script run starts with an empty namespace: nothing of the previous run is kept
KeepNamespace(old) == old
FreshNamespace(old) == None

EndKind(s) ==
    IF pc[s] # "done" THEN "none"
    ELSE IF fault[s] # "" THEN "fault"
    ELSE IF warning[s] = NoDataWarning THEN "empty"
    ELSE IF warning[s] = NoExtremeWarning THEN "no_extreme"
    ELSE "complete"

Init ==
    /\ file \in Files
    /\ cache = None
    /\ fileReads = 0
    /\ derivations = 0
    /\ runs = 0
    /\ active = {"s1"}
    /\ pc = [s \in Sessions |-> "idle"]
    /\ selected_year = [s \in Sessions |-> AllYears]
    /\ selected_month = [s \in Sessions |-> All]
    /\ df = [s \in Sessions |-> NoFrame]
    /\ filtered_df = [s \in Sessions |-> None]
    /\ warning = [s \in Sessions |-> ""]
    /\ fault = [s \in Sessions |-> ""]
    /\ kpi = [s \in Sessions |-> None]
    /\ monthly_incident_counts_long = [s \in Sessions |-> None]
    /\ daily_hourly_incidents = [s \in Sessions |-> None]
    /\ band_pivot = [s \in Sessions |-> None]
    /\ band_distribution = [s \in Sessions |-> None]
    /\ decomposition = [s \in Sessions |-> None]
    /\ delay_counts_extreme = [s \in Sessions |-> None]
    /\ tabs = [s \in Sessions |-> FALSE]
    /\ stopped_before = [s \in Sessions |-> FALSE]

\* the user opens the page (both selectors at "All") or changes a selector: the
\* script is run again from its first line
Rerun(s) ==
    /\ pc[s] \in {"idle", "done"}
    /\ runs < MaxRuns
    /\ \E year \in (IF pc[s] = "idle" THEN {AllYears} ELSE available_years(Deref(df[s], cache))),
          month \in (IF pc[s] = "idle" THEN {All} ELSE MonthsOffered) :
            /\ selected_year' = [selected_year EXCEPT ![s] = year]
            /\ selected_month' = [selected_month EXCEPT ![s] = month]
    /\ runs' = runs + 1
    /\ stopped_before' = [stopped_before EXCEPT ![s] = @ \/ EndKind(s) \in {"empty", "no_extreme"}]
    /\ pc' = [pc EXCEPT ![s] = "load"]
    /\ df' = [df EXCEPT ![s] = NoFrame]
    /\ filtered_df' = [filtered_df EXCEPT ![s] = FreshNamespace(@)]
    /\ warning' = [warning EXCEPT ![s] = ""]
    /\ fault' = [fault EXCEPT ![s] = ""]
    /\ kpi' = [kpi EXCEPT ![s] = FreshNamespace(@)]
    /\ monthly_incident_counts_long' = [monthly_incident_counts_long EXCEPT ![s] = FreshNamespace(@)]
    /\ daily_hourly_incidents' = [daily_hourly_incidents EXCEPT ![s] = FreshNamespace(@)]
    /\ band_pivot' = [band_pivot EXCEPT ![s] = FreshNamespace(@)]
    /\ band_distribution' = [band_distribution EXCEPT ![s] = FreshNamespace(@)]
    /\ decomposition' = [decomposition EXCEPT ![s] = FreshNamespace(@)]
    /\ delay_counts_extreme' = [delay_counts_extreme EXCEPT ![s] = FreshNamespace(@)]
    /\ tabs' = [tabs EXCEPT ![s] = FALSE]
    /\ UNCHANGED <<file, cache, fileReads, derivations, active>>

\* df = load_data()
LoadData(s) ==
    /\ pc[s] = "load"
    /\ IF CacheMiss(cache)
       THEN /\ fileReads' = fileReads + 1
            /\ cache' = Some(read_parquet(file))
       ELSE UNCHANGED <<fileReads, cache>>
    /\ df' = [df EXCEPT ![s] = load_data(cache')]
    /\ pc' = [pc EXCEPT ![s] = "derive"]
    /\ UNCHANGED <<file, derivations, runs, active, selection, filtered_df, outputs, stopped_before>>

\* lines 20-36: eight column assignments on df
DeriveFeatures(s) ==
    /\ pc[s] = "derive"
    /\ derivations' = derivations + 1
    /\ IF df[s].ref = "cache"
       THEN /\ cache' = Some(FeatureEngineering(cache[1]))
            /\ UNCHANGED df
       ELSE /\ df' = [df EXCEPT ![s] = OwnFrame(FeatureEngineering(df[s].val))]
            /\ UNCHANGED cache
    /\ pc' = [pc EXCEPT ![s] = "filter"]
    /\ UNCHANGED <<file, fileReads, runs, active, selection, filtered_df, outputs, stopped_before>>

\* lines 64-78: filtered_df is df.copy() or a boolean-mask selection of df
Filter(s) ==
    /\ pc[s] = "filter"
    /\ filtered_df' = [filtered_df EXCEPT ![s] =
            Some(ApplyFilters(Deref(df[s], cache), selected_year[s], selected_month[s]))]
    /\ pc' = [pc EXCEPT ![s] = "check"]
    /\ UNCHANGED <<shared, selection, df, outputs, stopped_before>>

\* lines 80-82: st.warning, st.stop
EmptyStop(s) ==
    /\ pc[s] = "check"
    /\ IsEmpty(filtered_df[s][1])
    /\ warning' = [warning EXCEPT ![s] = NoDataWarning]
    /\ pc' = [pc EXCEPT ![s] = "done"]
    /\ UNCHANGED <<shared, selection, frames, fault, kpi, monthly_incident_counts_long,
                   daily_hourly_incidents, band_pivot, band_distribution, decomposition,
                   delay_counts_extreme, tabs, stopped_before>>

\* lines 99-136
ComputeKPIs(s) ==
    /\ pc[s] = "check"
    /\ ~IsEmpty(filtered_df[s][1])
    /\ kpi' = [kpi EXCEPT ![s] = Some(KPIs(filtered_df[s][1]))]
    /\ pc' = [pc EXCEPT ![s] = "monthly"]
    /\ UNCHANGED <<shared, selection, frames, warning, fault, monthly_incident_counts_long,
                   daily_hourly_incidents, band_pivot, band_distribution, decomposition,
                   delay_counts_extreme, tabs, stopped_before>>

\* lines 141-243
MonthlyTrends(s) ==
    /\ pc[s] = "monthly"
    /\ monthly_incident_counts_long' = [monthly_incident_counts_long EXCEPT ![s] =
            Some(MonthlyIncidentCountsLong(filtered_df[s][1]))]
    /\ IF LegendLookupFails
       THEN /\ fault' = [fault EXCEPT ![s] = "ValueError"]
            /\ pc' = [pc EXCEPT ![s] = "done"]
       ELSE /\ pc' = [pc EXCEPT ![s] = "heatmap"]
            /\ UNCHANGED fault
    /\ UNCHANGED <<shared, selection, frames, warning, kpi, daily_hourly_incidents,
                   band_pivot, band_distribution, decomposition, delay_counts_extreme, tabs, stopped_before>>

\* lines 248-290
Heatmap(s) ==
    /\ pc[s] = "heatmap"
    /\ daily_hourly_incidents' = [daily_hourly_incidents EXCEPT ![s] =
            Some(DailyHourlyIncidents(filtered_df[s][1]))]
    /\ pc' = [pc EXCEPT ![s] = "bands"]
    /\ UNCHANGED <<shared, selection, frames, warning, fault, kpi,
                   monthly_incident_counts_long, band_pivot, band_distribution, decomposition,
                   delay_counts_extreme, tabs, stopped_before>>

\* lines 577-657: ResponseMinutes and ResponseBand are written to filtered_df
ResponseBands(s) ==
    /\ pc[s] = "bands"
    /\ LET banded == WithResponseBand(WithResponseMinutes(filtered_df[s][1]))
       IN  /\ filtered_df' = [filtered_df EXCEPT ![s] = Some(banded)]
           /\ band_pivot' = [band_pivot EXCEPT ![s] = Some(BandPivot(banded))]
    /\ pc' = [pc EXCEPT ![s] = "distribution"]
    /\ UNCHANGED <<shared, selection, df, warning, fault, kpi,
                   monthly_incident_counts_long, daily_hourly_incidents, band_distribution,
                   decomposition, delay_counts_extreme, tabs, stopped_before>>

\* lines 680-799: the histograms and the second banding of the response minutes
Distribution(s) ==
    /\ pc[s] = "distribution"
    /\ band_distribution' = [band_distribution EXCEPT ![s] =
            Some(BandDistribution(filtered_df[s][1]))]
    /\ pc' = [pc EXCEPT ![s] = "decomp"]
    /\ UNCHANGED <<shared, selection, frames, warning, fault, kpi,
                   monthly_incident_counts_long, daily_hourly_incidents, band_pivot,
                   decomposition, delay_counts_extreme, tabs, stopped_before>>

\* lines 804-873
Decompose(s) ==
    /\ pc[s] = "decomp"
    /\ ~loc_raises(filtered_df[s][1])
    /\ decomposition' = [decomposition EXCEPT ![s] = Some(Decomposition(filtered_df[s][1]))]
    /\ pc' = [pc EXCEPT ![s] = "pareto"]
    /\ UNCHANGED <<shared, selection, frames, warning, fault, kpi,
                   monthly_incident_counts_long, daily_hourly_incidents, band_pivot, band_distribution,
                   delay_counts_extreme, tabs, stopped_before>>

\* line 833 on a filtered set without one of the three groups: the run ends in KeyError
DecomposeKeyError(s) ==
    /\ pc[s] = "decomp"
    /\ loc_raises(filtered_df[s][1])
    /\ fault' = [fault EXCEPT ![s] = "KeyError"]
    /\ pc' = [pc EXCEPT ![s] = "done"]
    /\ UNCHANGED <<shared, selection, frames, warning, kpi,
                   monthly_incident_counts_long, daily_hourly_incidents, band_pivot, band_distribution,
                   decomposition, delay_counts_extreme, tabs, stopped_before>>

\* lines 878-896 with an empty delay_counts_extreme: st.warning, st.stop
ParetoStop(s) ==
    /\ pc[s] = "pareto"
    /\ LET again == WithResponseMinutes(filtered_df[s][1])
       IN  /\ IsEmpty(DelayCountsExtreme(again))
           /\ filtered_df' = [filtered_df EXCEPT ![s] = Some(again)]
    /\ warning' = [warning EXCEPT ![s] = NoExtremeWarning]
    /\ pc' = [pc EXCEPT ![s] = "done"]
    /\ UNCHANGED <<shared, selection, df, fault, kpi, monthly_incident_counts_long,
                   daily_hourly_incidents, band_pivot, band_distribution, decomposition,
                   delay_counts_extreme, tabs, stopped_before>>

\* lines 878-973
Pareto(s) ==
    /\ pc[s] = "pareto"
    /\ LET again == WithResponseMinutes(filtered_df[s][1])
       IN  /\ ~IsEmpty(DelayCountsExtreme(again))
           /\ filtered_df' = [filtered_df EXCEPT ![s] = Some(again)]
           /\ delay_counts_extreme' = [delay_counts_extreme EXCEPT ![s] =
                  Some(WithPercent(DelayCountsExtreme(again)))]
    /\ pc' = [pc EXCEPT ![s] = "tabs"]
    /\ UNCHANGED <<shared, selection, df, warning, fault, kpi,
                   monthly_incident_counts_long, daily_hourly_incidents, band_pivot, band_distribution,
                   decomposition, tabs, stopped_before>>

\* lines 1003-1044: the three tabs with the KPI metrics
Tabs(s) ==
    /\ pc[s] = "tabs"
    /\ tabs' = [tabs EXCEPT ![s] = TRUE]
    /\ pc' = [pc EXCEPT ![s] = "done"]
    /\ UNCHANGED <<shared, selection, frames, warning, fault, kpi,
                   monthly_incident_counts_long, daily_hourly_incidents, band_pivot, band_distribution,
                   decomposition, delay_counts_extreme, stopped_before>>

Next ==
    \/ \E s \in active : Rerun(s)
    \/ \E s \in active : LoadData(s)
    \/ \E s \in active : DeriveFeatures(s)
    \/ \E s \in active : Filter(s)
    \/ \E s \in active : EmptyStop(s)
    \/ \E s \in active : ComputeKPIs(s)
    \/ \E s \in active : MonthlyTrends(s)
    \/ \E s \in active : Heatmap(s)
    \/ \E s \in active : ResponseBands(s)
    \/ \E s \in active : Distribution(s)
    \/ \E s \in active : Decompose(s)
    \/ \E s \in active : DecomposeKeyError(s)
    \/ \E s \in active : ParetoStop(s)
    \/ \E s \in active : Pareto(s)
    \/ \E s \in active : Tabs(s)

Spec == Init /\ [][Next]_vars

\* two browser sessions on one process, on files with records of two years
SessionFiles == {b \o e : b \in {BaseCalm, BaseDelayed}, e \in SeqsUpTo(ExtraRows, 1)}

InitSessions ==
    /\ file \in SessionFiles
    /\ cache = None
    /\ fileReads = 0
    /\ derivations = 0
    /\ runs = 0
    /\ active = Sessions
    /\ pc = [s \in Sessions |-> "idle"]
    /\ selected_year = [s \in Sessions |-> AllYears]
    /\ selected_month = [s \in Sessions |-> All]
    /\ df = [s \in Sessions |-> NoFrame]
    /\ filtered_df = [s \in Sessions |-> None]
    /\ warning = [s \in Sessions |-> ""]
    /\ fault = [s \in Sessions |-> ""]
    /\ kpi = [s \in Sessions |-> None]
    /\ monthly_incident_counts_long = [s \in Sessions |-> None]
    /\ daily_hourly_incidents = [s \in Sessions |-> None]
    /\ band_pivot = [s \in Sessions |-> None]
    /\ band_distribution = [s \in Sessions |-> None]
    /\ decomposition = [s \in Sessions |-> None]
    /\ delay_counts_extreme = [s \in Sessions |-> None]
    /\ tabs = [s \in Sessions |-> FALSE]
    /\ stopped_before = [s \in Sessions |-> FALSE]

SpecSessions == InitSessions /\ [][Next]_vars

\* ============================================================ properties
\* the base table: the file as read, with the derived fields
BaseTable == FeatureEngineering(read_parquet(file))

\* a record of filtered_df without the two columns the band section adds
Unbanded(r) == [c \in DOMAIN r \ {"ResponseMinutes", "ResponseBand"} |-> r[c]]
Filtered(s) == [i \in 1..Len(filtered_df[s][1]) |-> Unbanded(filtered_df[s][1][i])]

Matches(r, year, month) ==
    /\ year # AllYears => r.Year = year
    /\ month # All => r.MonthName = month

Refiltered(year, month) == {r \in Range(BaseTable) : Matches(r, year, month)}

\* C1: the filtered record set is exactly the set of base-table records whose Year
\* equals the selected year (unless "All") and whose MonthName equals the selected
\* month (unless "All"), and its row count is that of the independent re-filter.
C1_FilterIsConjunction ==
    \A s \in Sessions :
        filtered_df[s] # None =>
            /\ Range(Filtered(s)) = Refiltered(selected_year[s], selected_month[s])
            /\ Len(filtered_df[s][1]) = Cardinality(Refiltered(selected_year[s], selected_month[s]))

\* a year and a month are both selected and keep some, not all, of the records
C1_Witness ==
    \E s \in Sessions :
        /\ filtered_df[s] # None
        /\ selected_year[s] # AllYears
        /\ selected_month[s] # All
        /\ 0 < Len(filtered_df[s][1])
        /\ Len(filtered_df[s][1]) < Len(file)

NothingComputed(s) ==
    /\ kpi[s] = None
    /\ monthly_incident_counts_long[s] = None
    /\ daily_hourly_incidents[s] = None
    /\ band_pivot[s] = None
    /\ band_distribution[s] = None
    /\ decomposition[s] = None
    /\ delay_counts_extreme[s] = None
    /\ ~tabs[s]

\* C2: a selection that matches no record ends the render cycle with the "No data
\* available" warning: nothing is computed, no fault is raised; and KPIs are only ever
\* computed on a non-empty filtered set.
C2_EmptyFilterStops ==
    \A s \in Sessions :
        /\ (filtered_df[s] # None /\ filtered_df[s][1] = <<>> /\ pc[s] # "check") =>
              /\ pc[s] = "done"
              /\ warning[s] = NoDataWarning
              /\ fault[s] = ""
              /\ NothingComputed(s)
        /\ kpi[s] # None => (filtered_df[s] # None /\ filtered_df[s][1] # <<>>)

\* a selection on a file with records matched none of them, and the run has stopped
C2_Witness ==
    \E s \in Sessions :
        /\ file # <<>>
        /\ <<selected_year[s], selected_month[s]>> # <<AllYears, All>>
        /\ pc[s] = "done"
        /\ filtered_df[s] = Some(<<>>)
        /\ warning[s] = NoDataWarning

\* C3: when the extreme-delay subset is empty, only the Pareto section is skipped:
\* the warning is shown and every other output of the cycle, the three tabs after
\* the Pareto section included, is still produced.
C3_ParetoStopKeepsSiblings ==
    \A s \in Sessions :
        (pc[s] = "done" /\ warning[s] = NoExtremeWarning) =>
            /\ delay_counts_extreme[s] = None
            /\ kpi[s] # None
            /\ monthly_incident_counts_long[s] # None
            /\ daily_hourly_incidents[s] # None
            /\ band_pivot[s] # None
            /\ decomposition[s] # None
            /\ tabs[s]

\* C4 as claimed: neither the file read nor the derivation of the derived fields is
\* executed a second time in the process.
C4_LoadAndDeriveOnce == fileReads <= 1 /\ derivations <= 1

Deriving == {s \in Sessions : pc[s] \in {"load", "derive"}}

\* C4 as amended: the file is read once and the stored table reused by every later
\* render cycle; the derived fields are computed again in every render cycle, on that
\* cycle's own copy of the stored table, and give the same base table each time.
C4_FileReadOnceDerivedPerRun ==
    /\ fileReads <= 1
    /\ cache # None => (fileReads = 1 /\ cache[1] = read_parquet(file))
    /\ derivations = runs - Cardinality(Deriving)
    /\ \A s \in Sessions :
          pc[s] \notin {"idle", "load", "derive"} => Deref(df[s], cache) = BaseTable

\* a filter change has been rendered: the second derivation, still the first file read
C4_Witness ==
    \E s \in Sessions :
        /\ <<selected_year[s], selected_month[s]>> # <<AllYears, All>>
        /\ pc[s] = "done"
        /\ derivations >= 2
        /\ fileReads = 1

\* C5: the cached table is never written after load, and every session's filtered
\* view is the filter of the unmodified base table for the session's own selection,
\* whatever the interleaving of the sessions' render cycles.
C5_CacheNeverWritten ==
    /\ cache # None => cache[1] = read_parquet(file)
    /\ \A s \in Sessions :
          filtered_df[s] # None =>
              Filtered(s) = ApplyFilters(FeatureEngineering(read_parquet(file)),
                                         selected_year[s], selected_month[s])

\* two sessions with different selections have both written their band columns
C5_Witness ==
    /\ selected_year["s1"] # selected_year["s2"]
    /\ \A s \in Sessions :
          /\ band_pivot[s] # None
          /\ \A i \in 1..Len(filtered_df[s][1]) : "ResponseBand" \in DOMAIN filtered_df[s][1][i]

\* what a session shows and holds
Rendered(s) ==
    [ filtered      |-> IF filtered_df[s] = None THEN None ELSE Some(Filtered(s)),
      warning       |-> warning[s],
      fault         |-> fault[s],
      kpi           |-> kpi[s],
      monthly       |-> monthly_incident_counts_long[s],
      heatmap       |-> daily_hourly_incidents[s],
      band_pivot    |-> band_pivot[s],
      distribution  |-> band_distribution[s],
      decomposition |-> decomposition[s],
      pareto        |-> delay_counts_extreme[s],
      tabs          |-> tabs[s] ]

\* the first render cycle of a fresh process on file f for the selection (year, month)
FreshRender(f, year, month) ==
    LET base    == FeatureEngineering(read_parquet(f))
        flt     == ApplyFilters(base, year, month)
        banded  == WithResponseBand(WithResponseMinutes(flt))
        keyerr  == loc_raises(flt)
        extreme == DelayCountsExtreme(banded)
        reached == ~keyerr /\ extreme # <<>>
    IN  IF flt = <<>>
        THEN [ filtered |-> Some(flt), warning |-> NoDataWarning, fault |-> "",
               kpi |-> None, monthly |-> None, heatmap |-> None, band_pivot |-> None,
               distribution |-> None, decomposition |-> None, pareto |-> None, tabs |-> FALSE ]
        ELSE [ filtered      |-> Some(flt),
               warning       |-> IF ~keyerr /\ extreme = <<>> THEN NoExtremeWarning ELSE "",
               fault         |-> IF keyerr THEN "KeyError" ELSE "",
               kpi           |-> Some(KPIs(flt)),
               monthly       |-> Some(MonthlyIncidentCountsLong(flt)),
               heatmap       |-> Some(DailyHourlyIncidents(flt)),
               band_pivot    |-> Some(BandPivot(banded)),
               distribution  |-> Some(BandDistribution(banded)),
               decomposition |-> IF keyerr THEN None ELSE Some(Decomposition(flt)),
               pareto        |-> IF reached THEN Some(WithPercent(extreme)) ELSE None,
               tabs          |-> reached ]

\* C6: what a finished render cycle shows is a function of the file and the current
\* selection only: whatever was selected and however the earlier cycles ended, it is
\* what the first cycle of a fresh process shows for that selection.
C6_RenderDependsOnSelectionOnly ==
    \A s \in Sessions :
        pc[s] = "done" => Rendered(s) = FreshRender(file, selected_year[s], selected_month[s])

\* a complete render cycle that follows a cycle which ended in one of the two stops
C6_Witness ==
    \E s \in Sessions :
        /\ pc[s] = "done"
        /\ stopped_before[s]
        /\ tabs[s]

\* the filtered records of one incident group
GroupRecords(s, g) == {i \in 1..Len(filtered_df[s][1]) : filtered_df[s][1][i].IncidentGroup = g}
\* a first-pump time that lies in one of the four bands
InSomeBand(x) == x # NaN /\ x > 0

RowPercentSum(bp, g) == RSum([i \in 1..Len(labels) |-> bp.cell[g][labels[i]]])

\* C7 as claimed: for every incident group with at least one filtered record, the
\* percentages over the four response bands sum to 100.
C7_EveryGroupSumsTo100 ==
    \A s \in Sessions :
        band_pivot[s] # None =>
            \A g \in Range(sorted_groups) :
                GroupRecords(s, g) # {} =>
                    /\ g \in Range(band_pivot[s][1].index)
                    /\ RowPercentSum(band_pivot[s][1], g) = Rat(100)

\* C7 as amended: for every incident group with at least one filtered record whose
\* first-pump time is present and above zero (a time that lies in a band), the
\* percentages over the four bands sum to 100, normalised within the group.
C7_BandedGroupsSumTo100 ==
    \A s \in Sessions :
        band_pivot[s] # None =>
            \A g \in Range(sorted_groups) :
                (\E i \in GroupRecords(s, g) :
                    InSomeBand(filtered_df[s][1][i].FirstPumpArriving_AttendanceTime)) =>
                    /\ g \in Range(band_pivot[s][1].index)
                    /\ RowPercentSum(band_pivot[s][1], g) = Rat(100)

\* two groups are charted, one of them with a banded record beside a zero-time or
\* missing-time record
C7_Witness ==
    \E s \in Sessions :
        /\ band_pivot[s] # None
        /\ Len(band_pivot[s][1].index) >= 2
        /\ \E g \in Range(sorted_groups) :
              /\ \E i \in GroupRecords(s, g) :
                    InSomeBand(filtered_df[s][1][i].FirstPumpArriving_AttendanceTime)
              /\ \E i \in GroupRecords(s, g) :
                    ~InSomeBand(filtered_df[s][1][i].FirstPumpArriving_AttendanceTime)

HasValue(s, g, c) == \E i \in GroupRecords(s, g) : filtered_df[s][1][i][c] # NaN
HasPositive(s, g, c) ==
    \E i \in GroupRecords(s, g) : filtered_df[s][1][i][c] # NaN /\ filtered_df[s][1][i][c] > 0

Incidents(s, records) == {filtered_df[s][1][i].IncidentNumber : i \in records}

\* C9: the hour-by-weekday matrix has the 24 hours as rows and Monday..Sunday as
\* columns, every cell holding the number of distinct incidents of that hour and
\* weekday, zero where no record matches.
C9_DenseMatrixWithZeros ==
    \A s \in Sessions :
        daily_hourly_incidents[s] # None =>
            LET m == daily_hourly_incidents[s][1]
            IN  /\ m.index = [i \in 1..24 |-> i - 1]
                /\ m.columns = weekday_order
                /\ \A h \in 0..23, d \in Range(weekday_order) :
                      at(m, h, d) =
                          Cardinality(Incidents(s, {i \in 1..Len(filtered_df[s][1]) :
                              /\ filtered_df[s][1][i].HourOfCall = h
                              /\ filtered_df[s][1][i].CallWeekday = d}))

\* C10: every count of the monthly series is the number of distinct incidents among
\* the filtered records of its month and group ("All Incidents": of its month), and
\* at most the number of those records; every month and group with a record has a row.
C10_MonthlyCountsAreDistinctIncidents ==
    \A s \in Sessions :
        monthly_incident_counts_long[s] # None =>
            LET series == monthly_incident_counts_long[s][1]
                RecordsOf(e) ==
                    {j \in 1..Len(filtered_df[s][1]) :
                        /\ filtered_df[s][1][j].CallMonth = e.CallMonth
                        /\ (e.IncidentGroup # "All Incidents" =>
                               filtered_df[s][1][j].IncidentGroup = e.IncidentGroup)}
            IN  /\ \A i \in 1..Len(series) :
                      /\ series[i].IncidentCount =
                            Cardinality(Incidents(s, RecordsOf(series[i])))
                      /\ series[i].IncidentCount <= Cardinality(RecordsOf(series[i]))
                /\ \A j \in 1..Len(filtered_df[s][1]) :
                      LET r == filtered_df[s][1][j]
                      IN  /\ \E i \in 1..Len(series) :
                                /\ series[i].CallMonth = r.CallMonth
                                /\ series[i].IncidentGroup = r.IncidentGroup
                          /\ \E i \in 1..Len(series) :
                                /\ series[i].CallMonth = r.CallMonth
                                /\ series[i].IncidentGroup = "All Incidents"

\* the example: two rows of incident A (Fire, month 1) and one of incident B (False
\* Alarm, month 1) give Fire = 1, False Alarm = 1, All Incidents = 2
C10_Witness ==
    \E s \in Sessions :
        /\ file = ExampleMonthly
        /\ monthly_incident_counts_long[s] =
              Some(<< [CallMonth |-> 1, IncidentGroup |-> "False Alarm", IncidentCount |-> 1],
                      [CallMonth |-> 1, IncidentGroup |-> "Fire", IncidentCount |-> 1],
                      [CallMonth |-> 1, IncidentGroup |-> "All Incidents", IncidentCount |-> 2] >>)

\* the first-pump attendance seconds of the filtered records, in record order
AttendanceSeconds(s) == Col(filtered_df[s][1], "FirstPumpArriving_AttendanceTime")

\* the k-th smallest of the values at the positions P of xs
KthSmallest(xs, P, k) ==
    CHOOSE v \in {xs[i] : i \in P} :
        /\ Cardinality({i \in P : xs[i] < v}) < k
        /\ k <= Cardinality({i \in P : xs[i] <= v})

\* C11: on a non-empty filtered set the KPI block reports response-within-6-min as
\* 100 times the fraction of the filtered records with a first-pump time <= 360 s
\* (360 itself counts) and the median as the median of the attendance seconds over
\* 60; attendance seconds [300, 360, 420] display as 66.7 and 6.00.
C11_Within6minAndMedian ==
    \A s \in Sessions :
        kpi[s] # None =>
            LET fp      == AttendanceSeconds(s)
                present == {i \in DOMAIN fp : fp[i] # NaN}
                hits    == {i \in present : fp[i] <= 360}
                n       == Cardinality(present)
            IN  /\ Len(fp) > 0
                /\ kpi[s][1].response_within_6min = Norm(<<100 * Cardinality(hits), Len(fp)>>)
                /\ n > 0 =>
                      kpi[s][1].median_response =
                          Norm(<< KthSmallest(fp, present, (n + 1) \div 2)
                                    + KthSmallest(fp, present, n \div 2 + 1), 120 >>)
                /\ fp = <<300, 360, 420>> =>
                      /\ kpi[s][1].col3 = "66.7"
                      /\ kpi[s][1].col2 = "6.00"

\* the KPIs of the example records [300, 360, 420] have been displayed
C11_Witness ==
    \E s \in Sessions :
        /\ kpi[s] # None
        /\ AttendanceSeconds(s) = <<300, 360, 420>>
        /\ kpi[s][1].col3 = "66.7"
        /\ kpi[s][1].col2 = "6.00"

\* the filtered records later than 10 minutes (positions in filtered_df)
ExtremeRecords(s) ==
    {i \in 1..Len(filtered_df[s][1]) :
        /\ filtered_df[s][1][i].FirstPumpArriving_AttendanceTime # NaN
        /\ filtered_df[s][1][i].FirstPumpArriving_AttendanceTime > 600}

\* C12: the Pareto table has one row per delay description of the extreme records,
\* in non-increasing order of count; Percent is the description's count as a share
\* (0-100) of all extreme records, CumulativePercent the running sum of Percent,
\* non-decreasing and 100 on the last row; the descriptions [Traffic, Traffic,
\* Weather] give (Traffic, 2, 66.7, 66.7), (Weather, 1, 33.3, 100.0); all of this
\* also when some extreme records have no delay description.
C12_ParetoSharesOfExtreme ==
    \A s \in Sessions :
        delay_counts_extreme[s] # None =>
            LET rows    == delay_counts_extreme[s][1]
                t       == filtered_df[s][1]
                extreme == ExtremeRecords(s)
                of(c)   == {i \in extreme : t[i].DelayCode_Description = c}
            IN  /\ \A i \in extreme :
                      t[i].DelayCode_Description # NA =>
                          \E j \in 1..Len(rows) :
                              rows[j].DelayCode_Description = t[i].DelayCode_Description
                /\ \A j \in 1..Len(rows) :
                      /\ rows[j].IncidentCount = Cardinality(of(rows[j].DelayCode_Description))
                      /\ rows[j].IncidentCount > 0
                      /\ j > 1 => rows[j - 1].IncidentCount >= rows[j].IncidentCount
                      /\ rows[j].Percent =
                            Norm(<<100 * rows[j].IncidentCount, Cardinality(extreme)>>)
                      /\ rows[j].CumulativePercent = RSum([k \in 1..j |-> rows[k].Percent])
                      /\ j > 1 => RLe(rows[j - 1].CumulativePercent, rows[j].CumulativePercent)
                /\ Len(rows) > 0
                /\ rows[Len(rows)].CumulativePercent = Rat(100)
                /\ ( /\ Col(t, "DelayCode_Description") = <<"Traffic", "Traffic", "Weather">>
                      /\ extreme = 1..3 ) =>
                      /\ Len(rows) = 2
                      /\ rows[1].DelayCode_Description = "Traffic" /\ rows[1].IncidentCount = 2
                      /\ format_f(rows[1].Percent, 1) = "66.7"
                      /\ format_f(rows[1].CumulativePercent, 1) = "66.7"
                      /\ rows[2].DelayCode_Description = "Weather" /\ rows[2].IncidentCount = 1
                      /\ format_f(rows[2].Percent, 1) = "33.3"
                      /\ format_f(rows[2].CumulativePercent, 1) = "100.0"

\* C13: a render cycle that runs the Pareto section on a non-empty filtered set
\* gives the "No extreme delays found" warning, which differs from the "No data
\* available" warning, when no filtered record is later than 10 minutes, and only
\* then: with at least one such record it produces a Pareto table.
C13_NoExtremeSignalOnlyWithoutExtremes ==
    /\ NoExtremeWarning # NoDataWarning
    /\ \A s \in Sessions :
          (pc[s] = "done" /\ fault[s] = "" /\ filtered_df[s][1] # <<>>) =>
              /\ warning[s] # NoDataWarning
              /\ ExtremeRecords(s) = {} =>
                    (warning[s] = NoExtremeWarning /\ delay_counts_extreme[s] = None)
              /\ ExtremeRecords(s) # {} =>
                    (warning[s] = "" /\ delay_counts_extreme[s] # None)

\* the filtered records with a first-pump time of more than lo and at most hi seconds
TimedWithin(s, lo, hi) ==
    {i \in 1..Len(filtered_df[s][1]) :
        /\ filtered_df[s][1][i].FirstPumpArriving_AttendanceTime # NaN
        /\ lo < filtered_df[s][1][i].FirstPumpArriving_AttendanceTime
        /\ filtered_df[s][1][i].FirstPumpArriving_AttendanceTime <= hi}
\* the filtered records with a first-pump time of more than lo seconds
TimedAbove(s, lo) ==
    {i \in 1..Len(filtered_df[s][1]) :
        /\ filtered_df[s][1][i].FirstPumpArriving_AttendanceTime # NaN
        /\ lo < filtered_df[s][1][i].FirstPumpArriving_AttendanceTime}

\* the share of the records P among the records Q, as the second banding shows it
ShownShare(P, Q) == round(Norm(<<100 * Cardinality(P), Cardinality(Q)>>), 1)

\* C14: in both bandings every band is right-closed (a time exactly on a cut point is
\* in the lower band: exactly 6 minutes is "<= 6 min") and every time above the
\* last cut point of the labels (10 minutes, 8 minutes) is in the terminal band
\* ("> 10 min", ">8 min"), none being left out of the distribution.
C14_RightClosedBandsOpenTerminal ==
    \A s \in Sessions :
        band_distribution[s] # None =>
            LET t    == filtered_df[s][1]
                dist == band_distribution[s][1]
            IN  /\ \A i \in TimedWithin(s, 0, 360)   : t[i].ResponseBand = labels[1]
                /\ \A i \in TimedWithin(s, 360, 480) : t[i].ResponseBand = labels[2]
                /\ \A i \in TimedWithin(s, 480, 600) : t[i].ResponseBand = labels[3]
                /\ \A i \in TimedAbove(s, 600)       : t[i].ResponseBand = labels[4]
                /\ TimedAbove(s, 0) # {} =>
                      /\ dist[1].value = ShownShare(TimedWithin(s, 0, 240), TimedAbove(s, 0))
                      /\ dist[2].value = ShownShare(TimedWithin(s, 240, 360), TimedAbove(s, 0))
                      /\ dist[3].value = ShownShare(TimedWithin(s, 360, 480), TimedAbove(s, 0))
                      /\ dist[4].value = ShownShare(TimedAbove(s, 480), TimedAbove(s, 0))

\* C15: on every non-empty filtered set, also one without a record of one or two of
\* the three incident groups, the render cycle runs every section from the KPI block
\* up to the Pareto section and raises no fault: neither the legend reordering of the
\* monthly trends nor the selection of the decomposition rows by label fails.
C15_NoFaultOnAbsentGroup ==
    \A s \in Sessions :
        /\ fault[s] = ""
        /\ (pc[s] = "done" /\ filtered_df[s][1] # <<>>) =>
              /\ kpi[s] # None
              /\ monthly_incident_counts_long[s] # None
              /\ daily_hourly_incidents[s] # None
              /\ band_pivot[s] # None
              /\ band_distribution[s] # None
              /\ decomposition[s] # None
              /\ (delay_counts_extreme[s] # None \/ warning[s] = NoExtremeWarning)

====
